---- MODULE Spec2Model ----
(***************************************************************************)
(* Model of the evaluate feature of vscode-supercollider:                  *)
(*   - the region locator currentDocumentRegion (backward / forward scan   *)
(*     over the lines of the document),                                    *)
(*   - the evaluate commands, evaluateString and the feedback decorations  *)
(*     driven by onStartEvaluate / onEndEvaluate and their timers.         *)
(* Line numbers and character offsets are 0-based as in the editor API;    *)
(* a document is a sequence of lines, a line a sequence of characters.     *)
(***************************************************************************)
EXTENDS Integers, Sequences, FiniteSets, TLC

(***************************************************************************)
(* Bounds of the model.                                                    *)
(***************************************************************************)
\* largest number of lines of a document given to region mode
MaxLines == 4

\* startLine = null / endLine = null: no line
NoLine == 0 - 1

(***************************************************************************)
(* Text, positions and ranges.                                             *)
(***************************************************************************)
\* the characters \s matches, among those used in the model
Whitespace == {" ", "\t"}

\* line terminators, which . does not match and no line text contains
LineTerminators == {"\n", "\r"}

\* vscode.Position
Position(line, character) == <<line, character>>

\* document order of positions
PosLeq(p, q) == p[1] < q[1] \/ (p[1] = q[1] /\ p[2] <= q[2])

\* vscode.Range: start and end are ordered by the constructor
Range(a, b) ==
  IF PosLeq(a, b) THEN [start |-> a, end |-> b] ELSE [start |-> b, end |-> a]

\* `return null' where a Range is expected: no span
NoRange == [start |-> <<NoLine, NoLine>>, end |-> <<NoLine, NoLine>>]

\* Range.isEmpty
isEmpty(range) == range.start = range.end

\* document.lineCount
lineCount(document) == Len(document)

\* document.lineAt(n): the TextLine of 0-based line n
lineAt(document, n) ==
  [lineNumber |-> n,
   text |-> document[n + 1],
   range |-> [start |-> Position(n, 0), end |-> Position(n, Len(document[n + 1]))]]

(***************************************************************************)
(* The two anchor patterns of region mode.                                 *)
(***************************************************************************)
\* index of the first character at or after k that \s does not match
RECURSIVE skipSpace(_, _)
skipSpace(text, k) ==
  IF k <= Len(text) /\ text[k] \in Whitespace THEN skipSpace(text, k + 1) ELSE k

\* .* up to the end of the line: every remaining character is not a terminator
restMatchesDot(text, k) ==
  \A j \in k..Len(text) : text[j] \notin LineTerminators

\* startRE = /^\(\s*(\/\/)?\s*(.*)\s*$/ : "(" first, then blanks, an optional
\* "//", blanks, and (.*) which takes the rest of the line
startRE(text) ==
  /\ Len(text) >= 1
  /\ text[1] = "("
  /\ LET k1 == skipSpace(text, 2)
         k2 == IF k1 + 1 <= Len(text) /\ text[k1] = "/" /\ text[k1 + 1] = "/"
               THEN k1 + 2 ELSE k1
         k3 == skipSpace(text, k2)
     IN  restMatchesDot(text, k3)

\* endRE = /^\)\s*\;?\s*(\/\/.*)?$/ : ")" first, then blanks, an optional ";",
\* blanks, and either the end of the line or a "//" comment up to it
endRE(text) ==
  /\ Len(text) >= 1
  /\ text[1] = ")"
  /\ LET k1 == skipSpace(text, 2)
         k2 == IF k1 <= Len(text) /\ text[k1] = ";" THEN k1 + 1 ELSE k1
         k3 == skipSpace(text, k2)
     IN  \/ k3 = Len(text) + 1
         \/ /\ k3 + 1 <= Len(text)
            /\ text[k3] = "/"
            /\ text[k3 + 1] = "/"
            /\ restMatchesDot(text, k3 + 2)

(***************************************************************************)
(* Region mode, one loop iteration at a time.                              *)
(***************************************************************************)
\* backwardStep without `startLine = null' at line 0: the scan stops on line 0
\* whatever its text
backwardStepKeepsLineZero(document, line) ==
  IF startRE(lineAt(document, line).text)
  THEN [startLine |-> line, again |-> FALSE]
  ELSE IF line = 0
       THEN [startLine |-> line, again |-> FALSE]
       ELSE [startLine |-> line - 1, again |-> TRUE]

\* a backward loop whose body does not move to the line above
backwardStepStaysOnLine(document, line) ==
  IF startRE(lineAt(document, line).text)
  THEN [startLine |-> line, again |-> FALSE]
  ELSE IF line = 0
       THEN [startLine |-> NoLine, again |-> FALSE]
       ELSE [startLine |-> line, again |-> TRUE]

\* one test of the backward loop, `while (!startRE.test(startLine.text))'
\* and its body: the next value of startLine and whether the loop goes on
backwardStep(document, line) ==
  IF startRE(lineAt(document, line).text)
  THEN [startLine |-> line, again |-> FALSE]
  ELSE IF line = 0
       THEN [startLine |-> NoLine, again |-> FALSE]
       ELSE [startLine |-> line - 1, again |-> TRUE]

\* nestDepth after the two tests of one forward iteration
nextDepth(text, depth) ==
  LET d1 == IF startRE(text) THEN depth + 1 ELSE depth
  IN  IF endRE(text) THEN d1 - 1 ELSE d1

\* forwardStep without `endLine = null' at the last line: the scan stops on
\* the last line whatever the counter
forwardStepKeepsLastLine(document, line, depth) ==
  LET d == nextDepth(lineAt(document, line).text, depth)
  IN  IF d = 0
      THEN [endLine |-> line, nestDepth |-> d, again |-> FALSE]
      ELSE IF line = lineCount(document) - 1
           THEN [endLine |-> line, nestDepth |-> d, again |-> FALSE]
           ELSE [endLine |-> line + 1, nestDepth |-> d, again |-> TRUE]

\* one iteration of the forward loop `while (true)'
forwardStep(document, line, depth) ==
  LET d == nextDepth(lineAt(document, line).text, depth)
  IN  IF d = 0
      THEN [endLine |-> line, nestDepth |-> d, again |-> FALSE]
      ELSE IF line = lineCount(document) - 1
           THEN [endLine |-> NoLine, nestDepth |-> d, again |-> FALSE]
           ELSE [endLine |-> line + 1, nestDepth |-> d, again |-> TRUE]

\* the final test of currentDocumentRegion and the range it builds
regionResult(document, sLine, eLine) ==
  IF sLine # NoLine /\ eLine # NoLine
  THEN Range(lineAt(document, sLine).range.start, lineAt(document, eLine).range.end)
  ELSE NoRange

\* the backward loop run to its end
RECURSIVE backwardScan(_, _)
backwardScan(document, line) ==
  LET s == backwardStep(document, line)
  IN  IF s.again THEN backwardScan(document, s.startLine) ELSE s.startLine

\* the forward loop run to its end
RECURSIVE forwardScan(_, _, _)
forwardScan(document, line, depth) ==
  LET s == forwardStep(document, line, depth)
  IN  IF s.again THEN forwardScan(document, s.endLine, s.nestDepth) ELSE s.endLine

\* currentDocumentRegion for an active editor showing document with selection
currentDocumentRegion(document, selection) ==
  LET sLine == backwardScan(document, selection.start[1])
      eLine == IF sLine # NoLine
               THEN forwardScan(document, selection.end[1], 1)
               ELSE selection.end[1]
  IN  regionResult(document, sLine, eLine)

(***************************************************************************)
(* Inputs of region mode.                                                  *)
(***************************************************************************)
\* line texts: openers, closers, and lines that only look like one
LineTexts ==
  { <<"(">>, <<"(", " ", "/", "/", "a">>,
    <<")">>, <<")", ";">>, <<")", "x">>,
    <<"x">> }

\* documents of 1..MaxLines lines
Documents == UNION { [1..n -> LineTexts] : n \in 1..MaxLines }

\* selections of a document, as far as region mode reads them: whole lines
Selections(document) ==
  { Range(Position(s, 0), Position(e, 0)) :
      s \in 0..(Len(document) - 1), e \in 0..(Len(document) - 1) }

(***************************************************************************)
(* Editors, decorations and responses.                                     *)
(***************************************************************************)
\* most invocations (calls of onStartEvaluate) of one run
MaxInv == 2

\* the text editors of the window
Editors == {"E1", "E2"}

\* vscode.window.activeTextEditor is undefined
NoEditor == "undefined"

\* the document each editor shows
documentOf(editor) ==
  IF editor = "E1" THEN << <<"(">>, <<")">> >> ELSE << <<"x">> >>

\* selections the user can have made in an editor: a cursor on the last
\* line, or the last line selected
EditorSelections(editor) ==
  LET last == Len(documentOf(editor)) - 1
  IN  { Range(Position(last, 0), Position(last, 0)),
        Range(Position(last, 0), Position(last, 1)) }

\* range arguments a caller can pass to evaluateSelection for an editor: none
\* (NoRange), an empty one, and a non-empty one given end first
InputRanges(editor) ==
  LET last == Len(documentOf(editor)) - 1
  IN  { NoRange,
        [start |-> Position(0, 0), end |-> Position(0, 0)],
        [start |-> Position(last, 1), end |-> Position(0, 0)] }

\* an absent field of EvaluateSelectionResult
Undefined == "undefined"

\* EvaluateSelectionResult: each field absent or a string
Responses ==
  [result : {Undefined, "2"},
   compileError : {Undefined, "ParseError"},
   error : {Undefined, "DivideByZero"}]

\* the value of `result' while the request has not resolved
NoResponse == [result |-> Undefined, compileError |-> Undefined, error |-> Undefined]

\* the decoration types
Styles == {"evaluateDecorator", "successDecorator", "errorDecorator"}

\* an editor without decorations
NoDecorations == [style \in Styles |-> <<>>]

\* hoverMessage of the evaluate decoration
EvaluateHover == "Evaluated the thing"

\* textEditor.setDecorations(style, list): replaces the list of the style
setDecorations(decs, editor, style, list) ==
  [decs EXCEPT ![editor][style] = list]

\* decoratorTimeout
decoratorTimeout == 5000

\* values of supercollider.evaluate.flashTime: the default 50 and one longer
\* than the post-flash time
FlashTimes == {50, 700}

\* values of supercollider.evaluate.postFlashTime (default 600)
PostFlashTimes == {600}

\* the slot of an invocation that has not started
NoCall ==
  [textEditor |-> NoEditor, range |-> NoRange,
   request |-> "none", result |-> NoResponse,
   pc |-> "none", responseText |-> Undefined, isError |-> FALSE,
   timeoutFired |-> FALSE, flashResolved |-> FALSE, postResolved |-> FALSE]

VARIABLES
  evaluateUID,    \* the module-level counter evaluateUID
  decorations,    \* per editor and decoration type, the list last set
  calls,          \* per value of currentEvaluateUID, the invocation's closure:
                  \*   textEditor, range   arguments of onStartEvaluate
                  \*   request             none, pending, resolved, rejected, handled
                  \*   result              the resolved EvaluateSelectionResult
                  \*   pc                  position of onEndEvaluate:
                  \*                       none, awaitFlash, awaitPost, done
                  \*   responseText, isError   arguments of onEndEvaluate
                  \*   timeoutFired        the decoratorTimeout timer has run
                  \*   flashResolved       evaluateFlashDelay is resolved
                  \*   postResolved        postEvaluateFlashDelay is resolved
                  \* (an argument or result that no code reads again is
                  \* dropped: it is set back to its value in NoCall)
  flashTime,      \* configuration value supercollider.evaluate.flashTime
  postFlashTime,  \* configuration value supercollider.evaluate.postFlashTime
  raised,         \* a command handler has thrown to the command layer
  noSpanReturn,   \* the step just taken is a command handler that found
                  \* `range' null and returned without evaluateString
  rdoc,        \* activeTextEditor.document of the running region call
  rsel,        \* activeTextEditor.selection of the running region call
  startLine,   \* line number of startLine, or NoLine
  endLine,     \* line number of endLine, or NoLine
  nestDepth,   \* nestDepth
  rpc,         \* position of the call: call, backward, forward, return, done
  rresult,     \* value returned by the call
  closers,     \* closing-marker lines the forward loop has tested so far
  scanned,     \* the line numbers each loop has tested so far, in order
  rarg         \* inputRange of the running evaluateSelection call

rvars == <<rdoc, rsel, startLine, endLine, nestDepth, rpc, rresult, closers,
           scanned, rarg>>

fvars == <<evaluateUID, decorations, calls, flashTime, postFlashTime, raised,
           noSpanReturn>>

vars == <<evaluateUID, decorations, calls, flashTime, postFlashTime, raised,
          noSpanReturn,
          rdoc, rsel, startLine, endLine, nestDepth, rpc, rresult, closers,
          scanned, rarg>>

\* no line tested yet by either loop
NoneScanned == [backward |-> <<>>, forward |-> <<>>]

\* the feedback state after the module is loaded, at the default configuration
FeedbackIdle ==
  /\ evaluateUID = 0
  /\ decorations = [e \in Editors |-> NoDecorations]
  /\ calls = [i \in 1..MaxInv |-> NoCall]
  /\ raised = FALSE
  /\ noSpanReturn = FALSE

\* no region call is running
RegionIdle ==
  /\ rdoc = << <<"x">> >>
  /\ rsel = Range(Position(0, 0), Position(0, 0))
  /\ startLine = NoLine
  /\ endLine = NoLine
  /\ nestDepth = 0
  /\ rpc = "idle"
  /\ rresult = NoRange
  /\ closers = 0
  /\ scanned = NoneScanned
  /\ rarg = NoRange

RegionInit ==
  /\ FeedbackIdle
  /\ flashTime = 50
  /\ postFlashTime = 600
  /\ rdoc \in Documents
  /\ rsel \in Selections(rdoc)
  /\ startLine = NoLine
  /\ endLine = NoLine
  /\ nestDepth = 0
  /\ rpc = "call"
  /\ rresult = NoRange
  /\ closers = 0
  /\ scanned = NoneScanned
  /\ rarg = NoRange

\* lines 166-181: read the selection's lines, nestDepth = 1
RegionEnter ==
  /\ rpc = "call"
  /\ startLine' = lineAt(rdoc, rsel.start[1]).lineNumber
  /\ endLine' = lineAt(rdoc, rsel.end[1]).lineNumber
  /\ nestDepth' = 1
  /\ rpc' = "backward"
  /\ UNCHANGED <<rdoc, rsel, rresult, closers, scanned, rarg>>
  /\ UNCHANGED fvars

\* lines 183-196: one test of the backward loop
RegionBackward ==
  /\ rpc = "backward"
  /\ LET s == backwardStep(rdoc, startLine)
     IN  /\ startLine' = s.startLine
         /\ rpc' = IF s.again THEN "backward"
                   ELSE IF s.startLine # NoLine THEN "forward" ELSE "return"
  /\ scanned' = [scanned EXCEPT !.backward = Append(@, startLine)]
  /\ UNCHANGED <<rdoc, rsel, endLine, nestDepth, rresult, closers, rarg>>
  /\ UNCHANGED fvars

\* lines 198-224: one iteration of the forward loop
RegionForward ==
  /\ rpc = "forward"
  /\ LET s == forwardStep(rdoc, endLine, nestDepth)
     IN  /\ endLine' = s.endLine
         /\ nestDepth' = s.nestDepth
         /\ rpc' = IF s.again THEN "forward" ELSE "return"
  /\ closers' = IF endRE(lineAt(rdoc, endLine).text) THEN closers + 1 ELSE closers
  /\ scanned' = [scanned EXCEPT !.forward = Append(@, endLine)]
  /\ UNCHANGED <<rdoc, rsel, startLine, rresult, rarg>>
  /\ UNCHANGED fvars

\* lines 227-236: build the range or return null
RegionReturn ==
  /\ rpc = "return"
  /\ rresult' = regionResult(rdoc, startLine, endLine)
  /\ rpc' = "done"
  /\ UNCHANGED <<rdoc, rsel, startLine, endLine, nestDepth, closers, scanned, rarg>>
  /\ UNCHANGED fvars

RegionNext == RegionEnter \/ RegionBackward \/ RegionForward \/ RegionReturn

SpecRegion == RegionInit /\ [][RegionNext]_vars

\* the call runs on the extension host's thread until it returns
FairSpecRegion == RegionInit /\ [][RegionNext]_vars /\ WF_vars(RegionNext)

\* the loops, run one iteration at a time, return what the function returns
RegionStepsAgree ==
  rpc = "done" => rresult = currentDocumentRegion(rdoc, rsel)

(***************************************************************************)
(* The span a command evaluates.                                           *)
(***************************************************************************)
\* currentDocumentSelection: the selection of the active editor, or null
currentDocumentSelection(editor, selection) ==
  IF editor = NoEditor THEN NoRange ELSE selection

\* lines 158-161: the range from the start of the selection's first line to
\* the end of its last line
lineRange(document, selection) ==
  Range(lineAt(document, selection.start[1]).range.start,
        lineAt(document, selection.end[1]).range.end)

\* currentDocumentLine: the whole lines the selection touches, or null
currentDocumentLine(editor, selection) ==
  IF editor = NoEditor
  THEN NoRange
  ELSE lineRange(documentOf(editor), selection)

\* an evaluateSelection that falls back to line mode only for a null range
resolveRangeNullOnly(document, selection, inputRange) ==
  LET range == IF inputRange # NoRange
               THEN Range(inputRange.start, inputRange.end)
               ELSE selection
  IN  IF range = NoRange
      THEN lineRange(document, selection)
      ELSE range

\* lines 257-271 for an active editor showing document: the range
\* evaluateSelection resolves from its argument and the selection
resolveRange(document, selection, inputRange) ==
  LET range == IF inputRange # NoRange
               THEN Range(inputRange.start, inputRange.end)
               ELSE selection
  IN  IF range = NoRange \/ isEmpty(range)
      THEN lineRange(document, selection)
      ELSE range

\* the range evaluateSelection resolves in the active editor
selectionRange(editor, selection, inputRange) ==
  resolveRange(documentOf(editor), currentDocumentSelection(editor, selection),
               inputRange)

(***************************************************************************)
(* Timers and the order of tasks.                                          *)
(***************************************************************************)
\* the timers onStartEvaluate arms, with their position in arming order
TimerKinds == {"timeout", "flash", "post"}

armOrder(kind) ==
  CASE kind = "timeout" -> 1 [] kind = "flash" -> 2 [] kind = "post" -> 3

\* the delay given to setTimeout
delayOf(kind) ==
  CASE kind = "timeout" -> decoratorTimeout
    [] kind = "flash" -> flashTime
    [] kind = "post" -> postFlashTime

hasFired(i, kind) ==
  CASE kind = "timeout" -> calls[i].timeoutFired
    [] kind = "flash" -> calls[i].flashResolved
    [] kind = "post" -> calls[i].postResolved

\* timer k of invocation j is due no later than timer kind of invocation i:
\* it was armed by an earlier invocation with a delay that is not longer, or
\* by the same invocation (at the same time) with a shorter delay, or with an
\* equal delay by an earlier setTimeout
dueBefore(j, k, i, kind) ==
  \/ j < i /\ delayOf(k) <= delayOf(kind)
  \/ j = i /\ delayOf(k) < delayOf(kind)
  \/ j = i /\ delayOf(k) = delayOf(kind) /\ armOrder(k) < armOrder(kind)

\* setTimeout callbacks run in the order of their deadlines, and in arming
\* order when the deadlines are equal
mayFire(i, kind) ==
  /\ i \in 1..evaluateUID
  /\ ~hasFired(i, kind)
  /\ \A j \in 1..i : \A k \in TimerKinds :
       dueBefore(j, k, i, kind) => hasFired(j, k)

\* a promise reaction is queued: it runs before any timer, command or message
microtaskPending ==
  \E i \in 1..evaluateUID :
     \/ calls[i].request = "resolved"
     \/ calls[i].pc = "awaitFlash" /\ calls[i].flashResolved
     \/ calls[i].pc = "awaitPost" /\ calls[i].postResolved

(***************************************************************************)
(* evaluateSelection on its own: every small document, every selection and *)
(* every range argument, up to the range handed to evaluateString.         *)
(***************************************************************************)
\* most lines of a document evaluateSelection is run on
MaxSelectLines == 2

\* documents of 1..MaxSelectLines lines of one or two characters
SelectDocuments ==
  UNION { [1..n -> { <<"(">>, <<")", ";">> }] : n \in 1..MaxSelectLines }

\* every position of a document, the end of each line included
Positions(document) ==
  { p \in (0..(Len(document) - 1)) \X (0..2) : p[2] <= Len(document[p[1] + 1]) }

\* editor.selection: start and end in document order
SelectSelections(document) ==
  { Range(a, b) : a \in Positions(document), b \in Positions(document) }

\* the inputRange argument: absent, or a start and an end in either order
SelectArguments(document) ==
  {NoRange} \cup { [start |-> a, end |-> b] :
                     a \in Positions(document), b \in Positions(document) }

SelectInit ==
  /\ FeedbackIdle
  /\ flashTime = 50
  /\ postFlashTime = 600
  /\ rdoc \in SelectDocuments
  /\ rsel \in SelectSelections(rdoc)
  /\ rarg \in SelectArguments(rdoc)
  /\ startLine = NoLine
  /\ endLine = NoLine
  /\ nestDepth = 0
  /\ rpc = "command"
  /\ rresult = NoRange
  /\ closers = 0
  /\ scanned = NoneScanned

\* lines 255-276: the handler up to its evaluateString(document, range)
SelectDispatch ==
  /\ rpc = "command"
  /\ rresult' = resolveRange(rdoc, rsel, rarg)
  /\ rpc' = "dispatched"
  /\ UNCHANGED <<rdoc, rsel, rarg, startLine, endLine, nestDepth, closers, scanned>>
  /\ UNCHANGED fvars

SelectNext == SelectDispatch

SpecSelect == SelectInit /\ [][SelectNext]_vars

(***************************************************************************)
(* Start of an evaluation.                                                 *)
(***************************************************************************)
\* an onStartEvaluate that advances evaluateUID by two
onStartEvaluateSkipsOne(textEditor, range) ==
  LET currentEvaluateUID == evaluateUID + 2
      d1 == setDecorations(decorations, textEditor, "successDecorator", <<>>)
      d2 == setDecorations(d1, textEditor, "errorDecorator", <<>>)
      d3 == setDecorations(d2, textEditor, "evaluateDecorator",
                           << [range |-> range, hoverMessage |-> EvaluateHover] >>)
  IN  [evaluateUID |-> currentEvaluateUID,
       decorations |-> d3,
       call |-> [NoCall EXCEPT !.textEditor = textEditor, !.range = range]]

\* onStartEvaluate, lines 94-141: the new counter, the decorations after the
\* three setDecorations calls, and the closure with its three timers armed
onStartEvaluate(textEditor, range) ==
  LET currentEvaluateUID == evaluateUID + 1
      d1 == setDecorations(decorations, textEditor, "successDecorator", <<>>)
      d2 == setDecorations(d1, textEditor, "errorDecorator", <<>>)
      d3 == setDecorations(d2, textEditor, "evaluateDecorator",
                           << [range |-> range, hoverMessage |-> EvaluateHover] >>)
  IN  [evaluateUID |-> currentEvaluateUID,
       decorations |-> d3,
       call |-> [NoCall EXCEPT !.textEditor = textEditor, !.range = range]]

\* evaluateString, lines 341-359: returns at once without an active editor,
\* else starts the feedback and sends the request
evaluateString(editor, range) ==
  IF editor = NoEditor
  THEN UNCHANGED <<evaluateUID, decorations, calls>>
  ELSE LET started == onStartEvaluate(editor, range)
       IN  /\ evaluateUID < MaxInv
           /\ evaluateUID' = started.evaluateUID
           /\ decorations' = started.decorations
           /\ calls' = [calls EXCEPT ![started.evaluateUID] =
                          [started.call EXCEPT !.request = "pending"]]

\* `vscode.window.activeTextEditor.document' without an active editor throws
\* out of the command handler
commandThrows ==
  /\ raised' = TRUE
  /\ noSpanReturn' = FALSE
  /\ UNCHANGED <<evaluateUID, decorations, calls>>

\* a handler that draws the next evaluateUID before it tests range
evaluateIfRangeCountsFirst(editor, range) ==
  /\ IF range # NoRange
     THEN evaluateString(editor, range)
     ELSE /\ evaluateUID < MaxInv
          /\ evaluateUID' = evaluateUID + 1
          /\ UNCHANGED <<decorations, calls>>
  /\ noSpanReturn' = (range = NoRange)
  /\ UNCHANGED raised

\* the rest of a command handler once range is known
evaluateIfRange(editor, range) ==
  /\ IF range # NoRange
     THEN evaluateString(editor, range)
     ELSE UNCHANGED <<evaluateUID, decorations, calls>>
  /\ noSpanReturn' = (range = NoRange)
  /\ UNCHANGED raised

(***************************************************************************)
(* The commands.                                                           *)
(***************************************************************************)
\* supercollider.evaluateSelection, lines 252-277
EvaluateSelection ==
  /\ ~microtaskPending
  /\ \E editor \in Editors \cup {NoEditor} :
       IF editor = NoEditor
       THEN commandThrows
       ELSE \E selection \in EditorSelections(editor), inputRange \in InputRanges(editor) :
              evaluateIfRange(editor, selectionRange(editor, selection, inputRange))
  /\ UNCHANGED <<flashTime, postFlashTime>>
  /\ UNCHANGED rvars

\* supercollider.evaluateLine, lines 279-287
EvaluateLine ==
  /\ ~microtaskPending
  /\ \E editor \in Editors \cup {NoEditor} :
       IF editor = NoEditor
       THEN commandThrows
       ELSE \E selection \in EditorSelections(editor) :
              evaluateIfRange(editor, currentDocumentLine(editor, selection))
  /\ UNCHANGED <<flashTime, postFlashTime>>
  /\ UNCHANGED rvars

\* supercollider.evaluateRegion, lines 289-297
EvaluateRegion ==
  /\ ~microtaskPending
  /\ \E editor \in Editors \cup {NoEditor} :
       IF editor = NoEditor
       THEN commandThrows
       ELSE \E selection \in EditorSelections(editor) :
              evaluateIfRange(editor,
                              currentDocumentRegion(documentOf(editor), selection))
  /\ UNCHANGED <<flashTime, postFlashTime>>
  /\ UNCHANGED rvars

(***************************************************************************)
(* Timers.                                                                 *)
(***************************************************************************)
\* a decoratorTimeout callback that clears without comparing evaluateUID
TimeoutFireUnchecked(i) ==
  /\ ~microtaskPending
  /\ mayFire(i, "timeout")
  /\ calls' = [calls EXCEPT ![i].timeoutFired = TRUE]
  /\ decorations' = setDecorations(decorations, calls[i].textEditor,
                                   "evaluateDecorator", <<>>)
  /\ UNCHANGED <<evaluateUID, flashTime, postFlashTime, raised>>
  /\ noSpanReturn' = FALSE
  /\ UNCHANGED rvars

\* lines 107-113: the decoratorTimeout callback of invocation i
TimeoutFire(i) ==
  /\ ~microtaskPending
  /\ mayFire(i, "timeout")
  /\ calls' = [calls EXCEPT ![i].timeoutFired = TRUE]
  /\ decorations' = IF evaluateUID = i
                    THEN setDecorations(decorations, calls[i].textEditor,
                                        "evaluateDecorator", <<>>)
                    ELSE decorations
  /\ UNCHANGED <<evaluateUID, flashTime, postFlashTime, raised>>
  /\ noSpanReturn' = FALSE
  /\ UNCHANGED rvars

\* lines 118-120: the flash timer resolves evaluateFlashDelay
FlashFire(i) ==
  /\ ~microtaskPending
  /\ mayFire(i, "flash")
  /\ calls' = [calls EXCEPT ![i].flashResolved = TRUE]
  /\ UNCHANGED <<evaluateUID, decorations, flashTime, postFlashTime, raised>>
  /\ noSpanReturn' = FALSE
  /\ UNCHANGED rvars

\* lines 125-127: the post-flash timer resolves postEvaluateFlashDelay
PostFire(i) ==
  /\ ~microtaskPending
  /\ mayFire(i, "post")
  /\ calls' = [calls EXCEPT ![i].postResolved = TRUE]
  /\ UNCHANGED <<evaluateUID, decorations, flashTime, postFlashTime, raised>>
  /\ noSpanReturn' = FALSE
  /\ UNCHANGED rvars

(***************************************************************************)
(* The response.                                                           *)
(***************************************************************************)
\* the transport resolves the request of invocation i with a result
TransportResolve(i) ==
  /\ ~microtaskPending
  /\ i \in 1..evaluateUID
  /\ calls[i].request = "pending"
  /\ \E response \in Responses :
       calls' = [calls EXCEPT ![i].request = "resolved", ![i].result = response]
  /\ UNCHANGED <<evaluateUID, decorations, flashTime, postFlashTime, raised>>
  /\ noSpanReturn' = FALSE
  /\ UNCHANGED rvars

\* the transport rejects the request of invocation i: result.then has no
\* rejection handler, the callback of lines 361-380 never runs
TransportReject(i) ==
  /\ ~microtaskPending
  /\ i \in 1..evaluateUID
  /\ calls[i].request = "pending"
  /\ calls' = [calls EXCEPT ![i].request = "rejected", ![i].range = NoRange]
  /\ UNCHANGED <<evaluateUID, decorations, flashTime, postFlashTime, raised>>
  /\ noSpanReturn' = FALSE
  /\ UNCHANGED rvars

\* classify with the compileError branch passing isError = false
classifyCompileErrorAsSuccess(result) ==
  IF result.result # Undefined
  THEN [finish |-> TRUE, text |-> result.result, isError |-> FALSE]
  ELSE IF result.compileError # Undefined
       THEN [finish |-> TRUE, text |-> result.compileError, isError |-> FALSE]
       ELSE IF result.error # Undefined
            THEN [finish |-> TRUE, text |-> result.error, isError |-> TRUE]
            ELSE [finish |-> FALSE, text |-> Undefined, isError |-> FALSE]

\* lines 361-380: which call of finishFunc the callback makes, if any
classify(result) ==
  IF result.result # Undefined
  THEN [finish |-> TRUE, text |-> result.result, isError |-> FALSE]
  ELSE IF result.compileError # Undefined
       THEN [finish |-> TRUE, text |-> result.compileError, isError |-> TRUE]
       ELSE IF result.error # Undefined
            THEN [finish |-> TRUE, text |-> result.error, isError |-> TRUE]
            ELSE [finish |-> FALSE, text |-> Undefined, isError |-> FALSE]

\* lines 129-140: finishFunc of invocation i calls onEndEvaluate only while
\* evaluateUID is still the invocation's
finishFuncCalls(i) == evaluateUID = i

\* the callback of result.then for invocation i, up to `await flashDelay'
ThenCallback(i) ==
  /\ i \in 1..evaluateUID
  /\ calls[i].request = "resolved"
  /\ LET c == classify(calls[i].result)
     IN  calls' = [calls EXCEPT
                     ![i] = IF c.finish /\ finishFuncCalls(i)
                            THEN [@ EXCEPT !.request = "handled",
                                           !.result = NoResponse,
                                           !.pc = "awaitFlash",
                                           !.responseText = c.text,
                                           !.isError = c.isError]
                            ELSE [@ EXCEPT !.request = "handled",
                                           !.result = NoResponse,
                                           !.range = NoRange]]
  /\ UNCHANGED <<evaluateUID, decorations, flashTime, postFlashTime, raised>>
  /\ noSpanReturn' = FALSE
  /\ UNCHANGED rvars

\* an onEndEvaluate that leaves the evaluating annotation in place
endDecorationsKeepsEvaluating(decs, textEditor, range, responseText, isError) ==
  LET painted == << [range |-> range, hoverMessage |-> responseText] >>
  IN  IF isError
      THEN setDecorations(setDecorations(decs, textEditor, "successDecorator", <<>>),
                          textEditor, "errorDecorator", painted)
      ELSE setDecorations(setDecorations(decs, textEditor, "errorDecorator", <<>>),
                          textEditor, "successDecorator", painted)

\* lines 62-72 and 80-86: the decorations after onEndEvaluate has painted
endDecorations(decs, textEditor, range, responseText, isError) ==
  LET painted == << [range |-> range, hoverMessage |-> responseText] >>
      d1 == setDecorations(decs, textEditor, "evaluateDecorator", <<>>)
  IN  IF isError
      THEN setDecorations(setDecorations(d1, textEditor, "successDecorator", <<>>),
                          textEditor, "errorDecorator", painted)
      ELSE setDecorations(setDecorations(d1, textEditor, "errorDecorator", <<>>),
                          textEditor, "successDecorator", painted)

\* lines 76 and 90: the decorations after onEndEvaluate has cleared
clearedDecorations(decs, textEditor, isError) ==
  IF isError
  THEN setDecorations(decs, textEditor, "errorDecorator", <<>>)
  ELSE setDecorations(decs, textEditor, "successDecorator", <<>>)

\* an onEndEvaluate that paints without awaiting flashDelay
OnEndEvaluatePaintAtOnce(i) ==
  /\ i \in 1..evaluateUID
  /\ calls[i].pc = "awaitFlash"
  /\ decorations' = endDecorations(decorations, calls[i].textEditor, calls[i].range,
                                   calls[i].responseText, calls[i].isError)
  /\ calls' = [calls EXCEPT ![i].pc = "awaitPost", ![i].range = NoRange,
                             ![i].responseText = Undefined]
  /\ UNCHANGED <<evaluateUID, flashTime, postFlashTime, raised>>
  /\ noSpanReturn' = FALSE
  /\ UNCHANGED rvars

\* onEndEvaluate of invocation i from `await flashDelay' to
\* `await postEvaluateFlashDelay'
OnEndEvaluatePaint(i) ==
  /\ i \in 1..evaluateUID
  /\ calls[i].pc = "awaitFlash"
  /\ calls[i].flashResolved
  /\ decorations' = endDecorations(decorations, calls[i].textEditor, calls[i].range,
                                   calls[i].responseText, calls[i].isError)
  /\ calls' = [calls EXCEPT ![i].pc = "awaitPost", ![i].range = NoRange,
                             ![i].responseText = Undefined]
  /\ UNCHANGED <<evaluateUID, flashTime, postFlashTime, raised>>
  /\ noSpanReturn' = FALSE
  /\ UNCHANGED rvars

\* onEndEvaluate of invocation i from `await postEvaluateFlashDelay' to its end
OnEndEvaluateClear(i) ==
  /\ i \in 1..evaluateUID
  /\ calls[i].pc = "awaitPost"
  /\ calls[i].postResolved
  /\ decorations' = clearedDecorations(decorations, calls[i].textEditor,
                                       calls[i].isError)
  /\ calls' = [calls EXCEPT ![i].pc = "done", ![i].isError = FALSE]
  /\ UNCHANGED <<evaluateUID, flashTime, postFlashTime, raised>>
  /\ noSpanReturn' = FALSE
  /\ UNCHANGED rvars

Init ==
  /\ FeedbackIdle
  /\ flashTime \in FlashTimes
  /\ postFlashTime \in PostFlashTimes
  /\ RegionIdle

Next ==
  \/ EvaluateSelection
  \/ EvaluateLine
  \/ EvaluateRegion
  \/ \E i \in 1..MaxInv : TimeoutFire(i)
  \/ \E i \in 1..MaxInv : FlashFire(i)
  \/ \E i \in 1..MaxInv : PostFire(i)
  \/ \E i \in 1..MaxInv : TransportResolve(i)
  \/ \E i \in 1..MaxInv : TransportReject(i)
  \/ \E i \in 1..MaxInv : ThenCallback(i)
  \/ \E i \in 1..MaxInv : OnEndEvaluatePaint(i)
  \/ \E i \in 1..MaxInv : OnEndEvaluateClear(i)

Spec == Init /\ [][Next]_vars

\* the event loop runs every queued promise reaction and every armed timer
\* whose turn has come; nothing obliges a command or a response to happen
Fairness ==
  \A i \in 1..MaxInv :
     /\ WF_vars(TimeoutFire(i))
     /\ WF_vars(FlashFire(i))
     /\ WF_vars(PostFire(i))
     /\ WF_vars(ThenCallback(i))
     /\ WF_vars(OnEndEvaluatePaint(i))
     /\ WF_vars(OnEndEvaluateClear(i))

FairSpec == Init /\ [][Next]_vars /\ Fairness

\* the shape of the feedback state
TypeOK ==
  /\ evaluateUID \in 0..MaxInv
  /\ raised \in BOOLEAN
  /\ \A i \in 1..MaxInv :
       /\ calls[i].request \in {"none", "pending", "resolved", "rejected", "handled"}
       /\ calls[i].pc \in {"none", "awaitFlash", "awaitPost", "done"}
       /\ (i > evaluateUID) <=> (calls[i] = NoCall)
  /\ \A e \in Editors : \A s \in Styles : Len(decorations[e][s]) <= 1

(***************************************************************************)
(* Properties of the feedback.                                             *)
(***************************************************************************)
\* invocation b has started after invocation a on the same editor
newerOnSameEditor(a, b) ==
  /\ a < b
  /\ b <= evaluateUID
  /\ calls[b].textEditor = calls[a].textEditor

\* invocation a has started and no later invocation is on its editor
newestOnEditor(a) ==
  /\ a <= evaluateUID
  /\ ~\E b \in 1..MaxInv : newerOnSameEditor(a, b)

\* this step is onEndEvaluate of invocation a painting its outcome
paintsOutcome(a) ==
  calls[a].pc = "awaitFlash" /\ calls'[a].pc = "awaitPost"

\* this step is the result.then callback of invocation a
handlesResponse(a) ==
  calls[a].request = "resolved" /\ calls'[a].request = "handled"

\* this step is a callback or timer of the started invocation a
runsFor(a) ==
  a <= evaluateUID /\ calls'[a] # calls[a]

\* the number of populated fields of a result
populated(result) ==
  Cardinality({ f \in {"result", "compileError", "error"} : result[f] # Undefined })

\* C1: once a later invocation B has started on the editor of invocation A,
\* no success or error annotation carrying A's outcome is painted.
C1_OnlyNewestRendered ==
  [][\A a \in 1..MaxInv :
       paintsOutcome(a) => ~\E b \in 1..MaxInv : newerOnSameEditor(a, b)]_vars

\* C2: once a later invocation B has started on the editor of invocation A,
\* no callback or timer of A changes the annotations of that editor.
C2_StaleNeverClobbers ==
  [][\A a \in 1..MaxInv :
       (runsFor(a) /\ \E b \in 1..MaxInv : newerOnSameEditor(a, b))
          => decorations'[calls[a].textEditor] = decorations[calls[a].textEditor]]_vars

\* C3: invocations on other editors do not interfere: for the newest
\* invocation on its editor, a response with a populated field starts the
\* rendering of its outcome, and its timeout timer leaves the editor without
\* evaluating annotation.
C3_EditorsIndependent ==
  [][\A a \in 1..MaxInv :
       newestOnEditor(a) =>
          /\ (handlesResponse(a) /\ classify(calls[a].result).finish)
                => calls'[a].pc = "awaitFlash"
          /\ (~calls[a].timeoutFired /\ calls'[a].timeoutFired)
                => decorations'[calls[a].textEditor]["evaluateDecorator"] = <<>>]_vars

\* C4: for a response with zero, two or three populated fields the completion
\* callback is not invoked, so onEndEvaluate does not start.
C4_MalformedIsNoCompletion ==
  [][\A a \in 1..MaxInv :
       (handlesResponse(a) /\ populated(calls[a].result) # 1)
          => calls'[a].pc = "none"]_vars

\* the only populated field of a result with exactly one
populatedField(result) ==
  CHOOSE f \in {"result", "compileError", "error"} : result[f] # Undefined

\* C5: a response with exactly one populated field, handled while its
\* invocation's generation is current, starts onEndEvaluate with the field's
\* text, as an error unless the field is result; and onEndEvaluate paints
\* exactly that: the success annotation (no error) or the error annotation,
\* over the dispatched range, with the text as hover, the other two styles
\* empty on that editor.
C5_OneFieldRendered ==
  [][\A a \in 1..MaxInv :
       /\ (handlesResponse(a) /\ populated(calls[a].result) = 1 /\ evaluateUID = a)
             => /\ calls'[a].pc = "awaitFlash"
                /\ calls'[a].responseText = calls[a].result[populatedField(calls[a].result)]
                /\ calls'[a].isError = (populatedField(calls[a].result) # "result")
                /\ calls'[a].range = calls[a].range
       /\ paintsOutcome(a)
             => LET painted == << [range |-> calls[a].range,
                                   hoverMessage |-> calls[a].responseText] >>
                    after   == decorations'[calls[a].textEditor]
                IN  /\ after["evaluateDecorator"] = <<>>
                    /\ after["errorDecorator"] = IF calls[a].isError THEN painted ELSE <<>>
                    /\ after["successDecorator"] = IF calls[a].isError THEN <<>> ELSE painted]_vars

\* C5 witness: a compileError response has been painted as error annotation
\* with its text as hover
C5_Witness ==
  \E a \in 1..MaxInv :
     /\ calls[a].pc = "awaitPost"
     /\ calls[a].isError
     /\ Len(decorations[calls[a].textEditor]["errorDecorator"]) = 1
     /\ decorations[calls[a].textEditor]["errorDecorator"][1].hoverMessage = "ParseError"

\* C11: a command whose locator yields no span is a no-op: the generation
\* counter, every invocation (its request and its three timers) and every
\* editor's annotations are unchanged by the step, also while an invocation
\* is in flight.
C11_NoSpanIsNoOp ==
  [][noSpanReturn' =>
       UNCHANGED <<evaluateUID, decorations, calls, flashTime, postFlashTime,
                   raised>>]_vars

\* C11 witness: a command has just returned without a span while the current
\* invocation waits for its response under its evaluating annotation
C11_Witness ==
  /\ noSpanReturn
  /\ \E a \in 1..evaluateUID :
       /\ a = evaluateUID
       /\ calls[a].request = "pending"
       /\ Len(decorations[calls[a].textEditor].evaluateDecorator) = 1

\* the span of line mode: from the start of the line holding the selection's
\* start to the end of the line holding the selection's end
lineSpan(document, selection) ==
  [start |-> <<selection.start[1], 0>>,
   end |-> <<selection.end[1], Len(document[selection.end[1] + 1])>>]

\* the positions of a range argument, in document order
ordered(range) ==
  IF PosLeq(range.start, range.end)
  THEN [start |-> range.start, end |-> range.end]
  ELSE [start |-> range.end, end |-> range.start]

\* C12 as stated: evaluateSelection dispatches the range argument when it is
\* supplied and non-empty, otherwise the current selection when that is
\* non-empty, otherwise the line-mode span
C12_ArgumentThenSelectionThenLine ==
  rpc = "dispatched" =>
    rresult = IF rarg # NoRange /\ rarg.start # rarg.end
              THEN ordered(rarg)
              ELSE IF rsel.start # rsel.end
                   THEN rsel
                   ELSE lineSpan(rdoc, rsel)

\* C12: evaluateSelection dispatches the range argument when it is supplied
\* and non-empty, the current selection when no argument is supplied and the
\* selection is non-empty, and otherwise (resolved range empty, a supplied
\* empty argument included) the line-mode span of the current selection
C12_ResolvedRangeOrLine ==
  rpc = "dispatched" =>
    rresult = IF rarg # NoRange
              THEN IF rarg.start # rarg.end
                   THEN ordered(rarg)
                   ELSE lineSpan(rdoc, rsel)
              ELSE IF rsel.start # rsel.end
                   THEN rsel
                   ELSE lineSpan(rdoc, rsel)

\* C12 witness: an empty range argument was supplied over a non-empty
\* selection that is not a whole line, and the line-mode span was dispatched
C12_Witness ==
  /\ rpc = "dispatched"
  /\ rarg # NoRange
  /\ rarg.start = rarg.end
  /\ rsel.start # rsel.end
  /\ rresult # rsel
  /\ rresult = lineSpan(rdoc, rsel)

\* C13: every editor eventually returns to Idle: whenever an annotation of
\* any style is painted on an editor, a later state has no annotation on
\* that editor, provided every armed timer fires and every queued promise
\* reaction runs, also when no response arrives and whatever happens on
\* other editors.
C13_EditorsReturnToIdle ==
  \A e \in Editors :
     (decorations[e] # NoDecorations) ~> (decorations[e] = NoDecorations)

\* this step is the decoratorTimeout callback of invocation a
timeoutFires(a) ==
  ~calls[a].timeoutFired /\ calls'[a].timeoutFired

\* C14: when the 5000ms timer of an invocation fires and its generation is
\* the current one, the evaluating annotation of its editor is cleared and
\* nothing else is painted or cleared; when a newer invocation has started
\* no annotation changes; the generation counter is never changed by the
\* timer, and a well-formed response handled after the timer fired, the
\* generation still current, is accepted for rendering.
C14_TimeoutClearsOnlyCurrent ==
  [][\A a \in 1..MaxInv :
       /\ timeoutFires(a) =>
            /\ evaluateUID' = evaluateUID
            /\ decorations' =
                 IF evaluateUID = a
                 THEN [decorations EXCEPT
                         ![calls[a].textEditor].evaluateDecorator = <<>>]
                 ELSE decorations
       /\ (/\ handlesResponse(a)
           /\ calls[a].timeoutFired
           /\ evaluateUID = a
           /\ populated(calls[a].result) = 1) =>
            /\ calls'[a].pc = "awaitFlash"
            /\ calls'[a].flashResolved]_vars

\* C14 witness: an outcome is painted for an invocation whose 5000ms timer
\* had fired before
C14_Witness ==
  \E a \in 1..evaluateUID :
     /\ calls[a].timeoutFired
     /\ calls[a].pc = "awaitPost"
     /\ \/ Len(decorations[calls[a].textEditor].successDecorator) = 1
        \/ Len(decorations[calls[a].textEditor].errorDecorator) = 1

\* C15: no invocation paints its success or error annotation, or clears its
\* evaluating annotation by its completion, before its flash-delay timer has
\* fired; the step that receives the response changes no annotation.
C15_NoPaintBeforeFlash ==
  [][\A a \in 1..MaxInv :
       /\ paintsOutcome(a) => calls[a].flashResolved
       /\ handlesResponse(a) => decorations' = decorations]_vars

\* C15 witness: a response was accepted before the flash timer fired and the
\* completion waits under the evaluating annotation
C15_Witness ==
  \E a \in 1..evaluateUID :
     /\ calls[a].pc = "awaitFlash"
     /\ ~calls[a].flashResolved
     /\ Len(decorations[calls[a].textEditor].evaluateDecorator) = 1

\* C16: when a completion paints its success or error annotation the
\* post-delay has not yet elapsed, so that the annotation stays painted for
\* the post-delay after the paint.
C16_PostDelayStartsAtPaint ==
  [][\A a \in 1..MaxInv :
       paintsOutcome(a) => ~calls[a].postResolved]_vars

\* this step hands the request of invocation a to the transport
dispatches(a) ==
  calls[a].request = "none" /\ calls'[a].request = "pending"

\* C17: the generation counter never decreases and grows by exactly one in
\* each step that dispatches an invocation and in no other step; the
\* dispatched invocation holds the new value, which no other invocation
\* holds; when its request is handed over the counter is already advanced
\* and its evaluating annotation is painted alone on its editor; and no
\* response is handled for a generation the counter has not reached.
C17_GenerationPerDispatch ==
  [][/\ evaluateUID' - evaluateUID =
          Cardinality({ a \in 1..MaxInv : dispatches(a) })
     /\ \A a \in 1..MaxInv :
          /\ dispatches(a) =>
               /\ a = evaluateUID'
               /\ a = evaluateUID + 1
               /\ calls[a] = NoCall
               /\ decorations'[calls'[a].textEditor] =
                    [evaluateDecorator |->
                       << [range |-> calls'[a].range,
                           hoverMessage |-> EvaluateHover] >>,
                     successDecorator |-> <<>>,
                     errorDecorator |-> <<>>]
          /\ handlesResponse(a) => a <= evaluateUID]_vars

\* C17 witness: two dispatched invocations are in flight, under generations
\* 1 and 2
C17_Witness ==
  /\ evaluateUID = 2
  /\ calls[1].request = "pending"
  /\ calls[2].request = "pending"

\* C18: on every editor at most one of the three styles is painted and each
\* style's list holds at most one range.
C18_OneAnnotationPerEditor ==
  \A e \in Editors :
     /\ Cardinality({ s \in Styles : decorations[e][s] # <<>> }) <= 1
     /\ \A s \in Styles : Len(decorations[e][s]) <= 1

\* C18 witness: an older invocation has painted its outcome on an editor
\* after a newer invocation, still in flight, painted that editor's
\* evaluating annotation
C18_Witness ==
  \E a \in 1..evaluateUID : \E b \in 1..evaluateUID :
     /\ newerOnSameEditor(a, b)
     /\ calls[a].pc = "awaitPost"
     /\ calls[b].request = "pending"
     /\ \/ Len(decorations[calls[a].textEditor].successDecorator) = 1
        \/ Len(decorations[calls[a].textEditor].errorDecorator) = 1

\* C10: no evaluate command raises to the command layer.
C10_NoCommandRaises ==
  raised = FALSE

(***************************************************************************)
(* Properties of region mode.                                              *)
(***************************************************************************)
\* 0-based lines l in a..b whose text matches the opening / closing pattern
openersIn(document, a, b) ==
  { l \in a..b : startRE(document[l + 1]) }

closersIn(document, a, b) ==
  { l \in a..b : endRE(document[l + 1]) }

\* openers minus closers among lines a..b
markerSum(document, a, b) ==
  Cardinality(openersIn(document, a, b)) - Cardinality(closersIn(document, a, b))

\* the marker lines a..b are balanced: no prefix closes more than it opens
\* and the whole closes exactly what it opens
balanced(document, a, b) ==
  /\ \A k \in a..b : markerSum(document, a, k) >= 0
  /\ markerSum(document, a, b) = 0

lastLine(document) == Len(document) - 1

\* C6: when region mode returns a span, its opening line and its closing
\* line are a matched pair under nesting (the marker lines strictly between
\* them are balanced) and the span encloses the selection.
C6_SmallestEnclosingBlock ==
  (rpc = "done" /\ rresult # NoRange) =>
     /\ rresult.start[1] <= rsel.start[1]
     /\ rsel.end[1] <= rresult.end[1]
     /\ balanced(rdoc, rresult.start[1] + 1, rresult.end[1] - 1)

\* C7: region mode returns no-span, or a span from the start of a line
\* matching the opening pattern, at or above the selection's start line, to
\* the end of a line matching the closing pattern, at or below the
\* selection's end line.
C7_SpanAnchoredOnMarkers ==
  rpc = "done" =>
     \/ rresult = NoRange
     \/ /\ startRE(rdoc[rresult.start[1] + 1])
        /\ endRE(rdoc[rresult.end[1] + 1])
        /\ rresult.start[1] <= rsel.start[1]
        /\ rsel.end[1] <= rresult.end[1]
        /\ rresult.start[2] = 0
        /\ rresult.end[2] = Len(rdoc[rresult.end[1] + 1])

\* C7 witness: a span strictly larger than the selection is returned
C7_Witness ==
  /\ rpc = "done"
  /\ rresult # NoRange
  /\ rresult.start[1] < rsel.start[1]
  /\ rsel.end[1] < rresult.end[1]

\* C8: region mode returns no-span when no line at or above the selection's
\* start line matches the opening pattern, when the counter (1 + openers -
\* closers from the selection's end line on) is 0 at no line down to the
\* last one, and so when no closing line exists at or below the selection.
C8_UnterminatedYieldsNoSpan ==
  rpc = "done" =>
     /\ (openersIn(rdoc, 0, rsel.start[1]) = {}) => rresult = NoRange
     /\ (\A k \in rsel.end[1]..lastLine(rdoc) :
            1 + markerSum(rdoc, rsel.end[1], k) # 0) => rresult = NoRange
     /\ (closersIn(rdoc, rsel.end[1], lastLine(rdoc)) = {}) => rresult = NoRange

\* C8 witness: an opener above and a closer below exist, yet the counter
\* never reaches 0 and no-span is returned
C8_Witness ==
  /\ rpc = "done"
  /\ rresult = NoRange
  /\ openersIn(rdoc, 0, rsel.start[1]) # {}
  /\ closersIn(rdoc, rsel.end[1], lastLine(rdoc)) # {}
  /\ \A k \in rsel.end[1]..lastLine(rdoc) : 1 + markerSum(rdoc, rsel.end[1], k) # 0

\* the document has n >= 1 opening lines, all before its first closing line,
\* and exactly n closing lines
nestedDocument(document, n) ==
  /\ n >= 1
  /\ Cardinality(openersIn(document, 0, lastLine(document))) = n
  /\ Cardinality(closersIn(document, 0, lastLine(document))) = n
  /\ \A o \in openersIn(document, 0, lastLine(document)) :
       \A c \in closersIn(document, 0, lastLine(document)) : o < c

\* the least / greatest element of a non-empty set of line numbers
minLine(S) == CHOOSE l \in S : \A m \in S : l <= m

maxLine(S) == CHOOSE l \in S : \A m \in S : m <= l

\* the selection lies in the outermost block, at or after its opening line
\* and before the next marker line
inOutermostHead(document, selection) ==
  LET markers == openersIn(document, 0, lastLine(document))
                   \cup closersIn(document, 0, lastLine(document))
      outer   == minLine(markers)
  IN  /\ outer <= selection.start[1]
      /\ \A m \in markers \ {outer} : selection.end[1] < m

\* C9: on a document of N nested openers followed by N closers, with the
\* selection in the outermost block at or after its opening line and before
\* the next opener, region mode consumes exactly N closing lines and returns
\* the span from the outermost opening line to the N-th closing line.
C9_ConsumesNClosers ==
  \A n \in 1..MaxLines :
    (rpc = "done" /\ nestedDocument(rdoc, n) /\ inOutermostHead(rdoc, rsel)) =>
       /\ closers = n
       /\ rresult = regionResult(rdoc,
                       minLine(openersIn(rdoc, 0, lastLine(rdoc))),
                       maxLine(closersIn(rdoc, 0, lastLine(rdoc))))
\* the tests of the backward loop go up from the selection's start line, one
\* line at a time, and never leave the document
backwardScannedOnce ==
  \A k \in 1..Len(scanned.backward) :
     /\ scanned.backward[k] = rsel.start[1] - (k - 1)
     /\ scanned.backward[k] >= 0

\* the iterations of the forward loop go down from the selection's end line,
\* one line at a time, and never leave the document
forwardScannedOnce ==
  \A k \in 1..Len(scanned.forward) :
     /\ scanned.forward[k] = rsel.end[1] + (k - 1)
     /\ scanned.forward[k] <= lastLine(rdoc)

\* C19: region mode terminates on every document and selection: the
\* backward loop tests each line at or above the selection's start line at
\* most once, the forward loop each line at or below the selection's end
\* line at most once, and the call then returns a span or no-span.
C19_RegionTerminates ==
  /\ [](backwardScannedOnce /\ forwardScannedOnce)
  /\ <>(rpc = "done")

\* C19 witness: a call has returned after its backward loop reached line 0
\* from a lower line and its forward loop reached the last line from a
\* higher one
C19_Witness ==
  /\ rpc = "done"
  /\ Len(scanned.backward) >= 2
  /\ Len(scanned.forward) >= 2
  /\ scanned.backward[Len(scanned.backward)] = 0
  /\ scanned.forward[Len(scanned.forward)] = lastLine(rdoc)

====
